---- MODULE Spec2Model ----
(***************************************************************************)
(* Model of the tokenizer (lexer.py, class AnalisadorLexico) and of the    *)
(* recursive-descent parser (an_parser.py, classes Nó and Analisador).     *)
(*                                                                         *)
(* A text is a sequence of one-character strings.  A token is the Python   *)
(* pair (tipo, valor), here <<tipo, valor>> with valor a text.  The Python *)
(* list that AnalisadorLexico.tokens, the caller and Analisador.tokens all *)
(* refer to is ONE object; it is the variable tokens.                      *)
(***************************************************************************)
EXTENDS Integers, Sequences, FiniteSets, TLC

VARIABLES
    codigo_fonte,   \* AnalisadorLexico.codigo_fonte
    tokens,         \* the token list object (lexer.tokens / Analisador.tokens)
    retornos,       \* history: the value of each analisar_tokens() return, in call order
    fase,           \* position of the calling program
    entregue,       \* history: the list as it was when handed to Analisador(...), if it was
    caso,           \* history: how the caller built the list (SpecParser)
    token_atual,    \* Analisador.token_atual
    ast,            \* Analisador.ast
    resultado,      \* how the last Analisador call ended: ok or the exception raised
    fator_vazio     \* history: fator fell through all its branches during analisar

vars == <<codigo_fonte, tokens, retornos, fase, entregue, caso, token_atual, ast,
          resultado, fator_vazio>>

(***************************************************************************)
(* Bounds                                                                  *)
(***************************************************************************)
MaxFonte == 4       \* longest source text handed to the tokenizer
MaxChamadas == 2    \* calls of analisar_tokens on one AnalisadorLexico
MaxItens == 3       \* variable declarations + statements of a generated program
MaxOperandos == 3   \* operands of a generated operator chain

\* the characters source texts are drawn from
Alfabeto == {"i", "f", "1", ".", "/", "*", "@", " ", "="}

(***************************************************************************)
(* Character classes of Python's re (ASCII part)                           *)
(***************************************************************************)
Letras == {"a","b","c","d","e","f","g","h","i","j","k","l","m","n","o","p","q",
           "r","s","t","u","v","w","x","y","z",
           "A","B","C","D","E","F","G","H","I","J","K","L","M","N","O","P","Q",
           "R","S","T","U","V","W","X","Y","Z"}
Digitos == {"0","1","2","3","4","5","6","7","8","9"}
\* \w
Palavra == Letras \cup Digitos \cup {"_"}
\* \s
Espaco == {" ", "\t", "\n", "\r", "\f"}

\* the character at index i, "" outside the text
At(s, i) == IF i \in 1..Len(s) THEN s[i] ELSE ""

\* \b at index i, i.e. between s[i-1] and s[i]
Fronteira(s, i) == (At(s, i - 1) \in Palavra) # (At(s, i) \in Palavra)

\* length of the longest run of characters of class cl starting at index i
RECURSIVE Corrida(_, _, _)
Corrida(s, i, cl) == IF At(s, i) \in cl THEN 1 + Corrida(s, i + 1, cl) ELSE 0

\* the literal text lit stands at index i
Literal(s, i, lit) ==
    /\ i + Len(lit) - 1 <= Len(s)
    /\ \A k \in 1..Len(lit) : s[i + k - 1] = lit[k]

(***************************************************************************)
(* especificacoes_tokens: the names in list order, and per name the length *)
(* of the match of its pattern at index p (0: no match; no pattern matches *)
(* the empty text).                                                        *)
(***************************************************************************)
especificacoes_tokens ==
    << "PROGRAM", "VAR", "INT", "FLOAT", "BOOL", "IF", "ELSE", "WHILE", "PRINT",
       "TRUE", "FALSE", "IDENTIFIER", "NUMBER", "SEMICOLON", "COLON", "LBRACE",
       "RBRACE", "MULTILINE_COMMENT", "LPAREN", "RPAREN", "ADD_OP", "MUL_OP",
       "REL_OP", "ASSIGN", "WHITESPACE" >>

\* the word of each keyword pattern \bword\b
PalavraChave ==
    "PROGRAM" :> <<"p","r","o","g","r","a","m","a">> @@
    "VAR" :> <<"v","a","r">> @@
    "INT" :> <<"i","n","t">> @@
    "FLOAT" :> <<"f","l","o","a","t">> @@
    "BOOL" :> <<"b","o","o","l">> @@
    "IF" :> <<"i","f">> @@
    "ELSE" :> <<"e","l","s","e">> @@
    "WHILE" :> <<"w","h","i","l","e">> @@
    "PRINT" :> <<"p","r","i","n","t">> @@
    "TRUE" :> <<"t","r","u","e">> @@
    "FALSE" :> <<"f","a","l","s","e">>

\* one-character patterns
Simbolo ==
    ";" :> "SEMICOLON" @@ ":" :> "COLON" @@ "{" :> "LBRACE" @@ "}" :> "RBRACE" @@
    "(" :> "LPAREN" @@ ")" :> "RPAREN" @@ "+" :> "ADD_OP" @@ "-" :> "ADD_OP" @@
    "*" :> "MUL_OP" @@ "/" :> "MUL_OP" @@ "=" :> "ASSIGN"

\* \bword\b
CasaPalavraChave(s, p, w) ==
    IF Fronteira(s, p) /\ Literal(s, p, w) /\ Fronteira(s, p + Len(w))
    THEN Len(w) ELSE 0

\* \b[a-zA-Z_][a-zA-Z0-9_]*\b : the whole run of word characters, which must
\* start at a word boundary with a letter or underscore
CasaIdentificador(s, p) ==
    IF Fronteira(s, p) /\ At(s, p) \in Letras \cup {"_"}
    THEN Corrida(s, p, Palavra) ELSE 0

\* \b\d+(\.\d*)?\b : d digits, then greedily ".", e digits; the closing \b
\* decides how far the optional group is kept (backtracking)
CasaNumero(s, p) ==
    LET d == Corrida(s, p, Digitos)
        e == Corrida(s, p + d + 1, Digitos)
    IN  IF ~(Fronteira(s, p) /\ d > 0) THEN 0
        ELSE IF At(s, p + d) = "."
             THEN IF e > 0 /\ Fronteira(s, p + d + 1 + e) THEN d + 1 + e
                  ELSE IF Fronteira(s, p + d + 1) THEN d + 1
                  ELSE d
             ELSE IF Fronteira(s, p + d) THEN d ELSE 0

\* index of the first "*/" at or after index i on the same line, 0 if none
\* ('.' does not match a newline)
RECURSIVE FimComentario(_, _)
FimComentario(s, i) ==
    IF i + 1 > Len(s) THEN 0
    ELSE IF s[i] = "*" /\ s[i + 1] = "/" THEN i
    ELSE IF s[i] = "\n" THEN 0
    ELSE FimComentario(s, i + 1)

\* /\*.*?\*/
CasaComentario(s, p) ==
    IF Literal(s, p, <<"/", "*">>) /\ FimComentario(s, p + 2) > 0
    THEN FimComentario(s, p + 2) + 2 - p ELSE 0

\* [<>]=?|==|!=
CasaRelOp(s, p) ==
    IF At(s, p) \in {"<", ">"} THEN (IF At(s, p + 1) = "=" THEN 2 ELSE 1)
    ELSE IF Literal(s, p, <<"=", "=">>) \/ Literal(s, p, <<"!", "=">>) THEN 2
    ELSE 0

Casa(nome, s, p) ==
    IF nome \in DOMAIN PalavraChave THEN CasaPalavraChave(s, p, PalavraChave[nome])
    ELSE IF nome = "IDENTIFIER" THEN CasaIdentificador(s, p)
    ELSE IF nome = "NUMBER" THEN CasaNumero(s, p)
    ELSE IF nome = "MULTILINE_COMMENT" THEN CasaComentario(s, p)
    ELSE IF nome = "REL_OP" THEN CasaRelOp(s, p)
    ELSE IF nome = "WHITESPACE" THEN Corrida(s, p, Espaco)
    ELSE IF At(s, p) \in DOMAIN Simbolo /\ Simbolo[At(s, p)] = nome THEN 1 ELSE 0

\* the alternation "|".join(...) at index p: the first alternative, in list
\* order, that matches; 0 if none does
Alternativa(s, p) ==
    LET casam == {k \in DOMAIN especificacoes_tokens :
                      Casa(especificacoes_tokens[k], s, p) > 0}
    IN  IF casam = {} THEN 0
        ELSE CHOOSE k \in casam : \A j \in casam : k <= j

\* re.finditer(regex, s) from index p on: the matches <<tipo, valor>> in order;
\* an index where nothing matches is passed over
RECURSIVE finditer(_, _)
finditer(s, p) ==
    IF p > Len(s) THEN <<>>
    ELSE LET k == Alternativa(s, p)
         IN  IF k = 0 THEN finditer(s, p + 1)
             ELSE LET nome == especificacoes_tokens[k]
                      n == Casa(nome, s, p)
                  IN  <<<<nome, SubSeq(s, p, p + n - 1)>>>> \o finditer(s, p + n)

\* the kinds analisar_tokens leaves out of the list
Descartados == {"WHITESPACE"}

\* the loop of analisar_tokens: the matches appended to lista
Emitidos(s) == SelectSeq(finditer(s, 1), LAMBDA t : t[1] \notin Descartados)

(***************************************************************************)
(* an_parser.py                                                            *)
(***************************************************************************)
\* Python's None where a node or a leaf value is expected
None == [none |-> TRUE]

\* Python's None in token_atual: a value no token equals
TokenNone == <<"None", <<>>>>

\* Nó(_tipo, filhos, folha)
No(tipo, filhos, folha) == [tipo |-> tipo, filhos |-> filhos, folha |-> folha]

(***************************************************************************)
(* The methods of Analisador act on a record st of the object's fields:    *)
(* tokens, token_atual, erro ("ok" or the name of the exception that is    *)
(* propagating) and fator_vazio (history).  A method returns [st, no] (or  *)
(* [st, token]); when a call it makes raises, the method hands the state   *)
(* back at once with nothing more done: that is how the exception unwinds  *)
(* the callers.                                                            *)
(***************************************************************************)
Levanta(st, excecao) == [st EXCEPT !.erro = excecao]

\* self.token_atual[0]: subscripting None raises TypeError
Subscrito(st) ==
    IF st.erro = "ok" /\ st.token_atual = TokenNone THEN Levanta(st, "TypeError") ELSE st

combinar(st0, tipos_esperados) ==
    LET st == Subscrito(st0)
    IN  IF st.erro # "ok" THEN [st |-> st, token |-> TokenNone]
        ELSE IF st.token_atual[1] \in tipos_esperados
        THEN [st |-> [st EXCEPT
                        !.token_atual = IF st.tokens # <<>> THEN Head(st.tokens)
                                        ELSE TokenNone,
                        !.tokens = IF st.tokens # <<>> THEN Tail(st.tokens) ELSE <<>>],
              token |-> st.token_atual]
        ELSE [st |-> Levanta(st, "SyntaxError"), token |-> TokenNone]

\* a variant of the next definition that leaves WHILE out
InicioDeclaracaoSemWhile == {"IDENTIFIER", "IF", "PRINT"}

\* the token kinds that start a statement (the while condition of declaracoes)
InicioDeclaracao == {"IDENTIFIER", "IF", "WHILE", "PRINT"}

\* a variant of the next definition with the two children exchanged
NoExprTrocado(esquerda, direita, op) == No("EXPR", <<direita, esquerda>>, op[2])

\* Nó("EXPR", [esquerda, direita], op[1])
NoExpr(esquerda, direita, op) == No("EXPR", <<esquerda, direita>>, op[2])

\* what a method hands back while an exception propagates
Propaga(st) == [st |-> st, no |-> None]

\* one call v made by a method, and the rest K of the method's body: an
\* exception raised in the call leaves the method at once
Tenta(v, K(_)) == IF v.st.erro # "ok" THEN Propaga(v.st) ELSE K(v)

\* self.combinar(t) for each t of tipos in turn, tokens being the tokens
\* handed back so far: the calls a method makes one after the other
RECURSIVE combinar_cada(_, _, _)
combinar_cada(st, tipos, tokens_devolvidos) ==
    IF tipos = <<>> THEN [st |-> st, tokens |-> tokens_devolvidos]
    ELSE Tenta(combinar(st, Head(tipos)), LAMBDA c :
         combinar_cada(c.st, Tail(tipos), Append(tokens_devolvidos, c.token)))

\* the calls of combinar a method makes one after the other
combinar_seguidos(st, tipos) == combinar_cada(st, tipos, <<>>)

RECURSIVE secao_var_laco(_, _), declaracoes(_), declaracoes_laco(_, _),
          atribuicao(_), decl_if(_), decl_while(_), decl_print(_),
          expr(_), expr_laco(_, _), expr_simples(_), expr_simples_laco(_, _),
          termo(_), termo_laco(_, _), fator(_)

\* the while loop of secao_var, nos being the list built so far
secao_var_laco(st, nos) ==
    IF Subscrito(st).erro # "ok" THEN Propaga(Subscrito(st))
    ELSE IF st.token_atual[1] = "VAR"
    THEN Tenta(combinar_seguidos(st, <<{"VAR"}, {"IDENTIFIER"}, {"COLON"},
                                       {"INT", "FLOAT", "BOOL"}, {"SEMICOLON"}>>),
               LAMBDA c :
         secao_var_laco(c.st,
             Append(nos, No("DECL_VAR", <<>>, <<c.tokens[2][2], c.tokens[4][1]>>))))
    ELSE [st |-> st, no |-> No("SECAO_VAR", nos, None)]

secao_var(st) == secao_var_laco(st, <<>>)

\* the while loop of declaracoes
declaracoes_laco(st, nos) ==
    IF Subscrito(st).erro # "ok" THEN Propaga(Subscrito(st))
    ELSE IF st.token_atual[1] \in InicioDeclaracao
    THEN Tenta(IF st.token_atual[1] = "IDENTIFIER" THEN atribuicao(st)
               ELSE IF st.token_atual[1] = "IF" THEN decl_if(st)
               ELSE IF st.token_atual[1] = "WHILE" THEN decl_while(st)
               ELSE decl_print(st), LAMBDA d :
         declaracoes_laco(d.st, Append(nos, d.no)))
    ELSE [st |-> st, no |-> No("DECLARACOES", nos, None)]

declaracoes(st) == declaracoes_laco(st, <<>>)

atribuicao(st) ==
    Tenta(combinar_seguidos(st, <<{"IDENTIFIER"}, {"ASSIGN"}>>), LAMBDA c :
    Tenta(expr(c.st), LAMBDA e :
    Tenta(combinar(e.st, {"SEMICOLON"}), LAMBDA c4 :
    [st |-> c4.st, no |-> No("ATRIBUICAO", <<e.no>>, c.tokens[1][2])])))

\* the else part of decl_if, from the test of the token after the first block on
decl_if_else(st, condicao, declaracoes_verdadeiras) ==
    IF Subscrito(st).erro # "ok" THEN Propaga(Subscrito(st))
    ELSE IF st.token_atual[1] = "ELSE"
    THEN Tenta(combinar_seguidos(st, <<{"ELSE"}, {"LBRACE"}>>), LAMBDA c9 :
         Tenta(declaracoes(c9.st), LAMBDA declaracoes_falsas :
         Tenta(combinar(declaracoes_falsas.st, {"RBRACE"}), LAMBDA c11 :
         [st |-> c11.st,
          no |-> No("DECL_IF", <<condicao, declaracoes_verdadeiras,
                                 declaracoes_falsas.no>>, None)])))
    ELSE [st |-> st,
          no |-> No("DECL_IF", <<condicao, declaracoes_verdadeiras, None>>, None)]

decl_if(st) ==
    Tenta(combinar_seguidos(st, <<{"IF"}, {"LPAREN"}>>), LAMBDA c2 :
    Tenta(expr(c2.st), LAMBDA condicao :
    Tenta(combinar_seguidos(condicao.st, <<{"RPAREN"}, {"LBRACE"}>>), LAMBDA c5 :
    Tenta(declaracoes(c5.st), LAMBDA declaracoes_verdadeiras :
    Tenta(combinar(declaracoes_verdadeiras.st, {"RBRACE"}), LAMBDA c7 :
    decl_if_else(c7.st, condicao.no, declaracoes_verdadeiras.no))))))

decl_while(st) ==
    Tenta(combinar_seguidos(st, <<{"WHILE"}, {"LPAREN"}>>), LAMBDA c2 :
    Tenta(expr(c2.st), LAMBDA condicao :
    Tenta(combinar_seguidos(condicao.st, <<{"RPAREN"}, {"LBRACE"}>>), LAMBDA c5 :
    Tenta(declaracoes(c5.st), LAMBDA declaracoes_loop :
    Tenta(combinar(declaracoes_loop.st, {"RBRACE"}), LAMBDA c7 :
    [st |-> c7.st,
     no |-> No("DECL_WHILE", <<condicao.no, declaracoes_loop.no>>, None)])))))

decl_print(st) ==
    Tenta(combinar_seguidos(st, <<{"PRINT"}, {"LPAREN"}>>), LAMBDA c2 :
    Tenta(expr(c2.st), LAMBDA e :
    Tenta(combinar_seguidos(e.st, <<{"RPAREN"}, {"SEMICOLON"}>>), LAMBDA c5 :
    [st |-> c5.st, no |-> No("DECL_PRINT", <<e.no>>, None)])))

\* the while loop of expr, esquerda being the tree built so far
expr_laco(st, esquerda) ==
    IF Subscrito(st).erro # "ok" THEN Propaga(Subscrito(st))
    ELSE IF st.token_atual[1] = "REL_OP"
    THEN Tenta(combinar(st, {"REL_OP"}), LAMBDA op :
         Tenta(expr_simples(op.st), LAMBDA direita :
         expr_laco(direita.st, NoExpr(esquerda, direita.no, op.token))))
    ELSE [st |-> st, no |-> esquerda]

expr(st) ==
    Tenta(expr_simples(st), LAMBDA esquerda : expr_laco(esquerda.st, esquerda.no))

\* the while loop of expr_simples
expr_simples_laco(st, esquerda) ==
    IF Subscrito(st).erro # "ok" THEN Propaga(Subscrito(st))
    ELSE IF st.token_atual[1] = "ADD_OP"
    THEN Tenta(combinar(st, {"ADD_OP"}), LAMBDA op :
         Tenta(termo(op.st), LAMBDA direita :
         expr_simples_laco(direita.st, NoExpr(esquerda, direita.no, op.token))))
    ELSE [st |-> st, no |-> esquerda]

expr_simples(st) ==
    Tenta(termo(st), LAMBDA esquerda : expr_simples_laco(esquerda.st, esquerda.no))

\* the while loop of termo
termo_laco(st, esquerda) ==
    IF Subscrito(st).erro # "ok" THEN Propaga(Subscrito(st))
    ELSE IF st.token_atual[1] = "MUL_OP"
    THEN Tenta(combinar(st, {"MUL_OP"}), LAMBDA op :
         Tenta(fator(op.st), LAMBDA direita :
         termo_laco(direita.st, NoExpr(esquerda, direita.no, op.token))))
    ELSE [st |-> st, no |-> esquerda]

termo(st) ==
    Tenta(fator(st), LAMBDA esquerda : termo_laco(esquerda.st, esquerda.no))

\* a leaf of fator: Nó(tipo, [], self.combinar(tipo_token)[1])
fator_folha(st, tipo_token, tipo) ==
    Tenta(combinar(st, {tipo_token}), LAMBDA c :
    [st |-> c.st, no |-> No(tipo, <<>>, c.token[2])])

\* no branch for any other token kind: the method ends and returns None
fator(st) ==
    IF Subscrito(st).erro # "ok" THEN Propaga(Subscrito(st))
    ELSE IF st.token_atual[1] = "IDENTIFIER" THEN fator_folha(st, "IDENTIFIER", "IDENTIFICADOR")
    ELSE IF st.token_atual[1] = "NUMBER" THEN fator_folha(st, "NUMBER", "NUMERO")
    ELSE IF st.token_atual[1] = "LPAREN"
    THEN Tenta(combinar(st, {"LPAREN"}), LAMBDA c1 :
         Tenta(expr(c1.st), LAMBDA e :
         Tenta(combinar(e.st, {"RPAREN"}), LAMBDA c3 :
         [st |-> c3.st, no |-> e.no])))
    ELSE IF st.token_atual[1] = "TRUE" THEN fator_folha(st, "TRUE", "BOOLEANO")
    ELSE IF st.token_atual[1] = "FALSE" THEN fator_folha(st, "FALSE", "BOOLEANO")
    ELSE [st |-> [st EXCEPT !.fator_vazio = TRUE], no |-> None]

programa(st) ==
    Tenta(combinar_seguidos(st, <<{"PROGRAM"}, {"IDENTIFIER"}, {"LBRACE"}>>), LAMBDA c :
    Tenta(secao_var(c.st), LAMBDA sv :
    Tenta(declaracoes(sv.st), LAMBDA ds :
    Tenta(combinar(ds.st, {"RBRACE"}), LAMBDA c6 :
    [st |-> c6.st, no |-> No("PROGRAMA", <<sv.no, ds.no>>, c.tokens[2][2])]))))

(***************************************************************************)
(* The inputs the callers hand in                                          *)
(***************************************************************************)
\* every text of at most MaxFonte characters of Alfabeto
Fontes == UNION {[1..n -> Alfabeto] : n \in 0..MaxFonte}

KW(nome) == <<nome, PalavraChave[nome]>>
Sym(c) == <<Simbolo[c], <<c>>>>
tX == <<"IDENTIFIER", <<"x">>>>
tUm == <<"NUMBER", <<"1">>>>
tMenor == <<"REL_OP", <<"<">>>>
tIgual == <<"REL_OP", <<"=", "=">>>>
tComentario == <<"MULTILINE_COMMENT", <<"/", "*", "*", "/">>>>

Operandos == {tX, tUm, KW("TRUE")}
Operadores == {Sym("+"), Sym("-"), Sym("*"), Sym("/"), tMenor, tIgual}

\* the operator chains without parentheses with exactly n operands
RECURSIVE Cadeias(_)
Cadeias(n) ==
    IF n = 1 THEN {<<a>> : a \in Operandos}
    ELSE {c \o <<o, a>> : c \in Cadeias(n - 1), o \in Operadores, a \in Operandos}

CadeiasAte(m) == UNION {Cadeias(n) : n \in 1..m}

\* VarDecl := 'var' IDENTIFIER ':' ('int'|'float'|'bool') ';'
DeclVar == {<<KW("VAR"), tX, Sym(":"), KW(t), Sym(";")>> : t \in {"INT", "FLOAT", "BOOL"}}

\* VarDecl*, exactly n of them
RECURSIVE SecoesVar(_)
SecoesVar(n) ==
    IF n = 0 THEN {<<>>} ELSE {d \o s : d \in DeclVar, s \in SecoesVar(n - 1)}

\* Statement and Statement* of the grammar, by the number n of statements
\* they hold, nested ones included.  Comandos(n): the token sequences of one
\* statement; Listas(n): [toks, ns] with ns the statements of the list itself.
RECURSIVE Comandos(_), Listas(_)
Comandos(n) ==
    LET Bloco(k) == {<<Sym("{")>> \o l.toks \o <<Sym("}")>> : l \in Listas(k)}
        While == {<<KW("WHILE"), Sym("("), Sym("("), KW("FALSE"), Sym(")"), Sym(")")>> \o b :
                      b \in Bloco(n - 1)}
        If == {<<KW("IF"), Sym("("), tX, tMenor, tUm, Sym(")")>> \o b : b \in Bloco(n - 1)}
        IfElse == UNION {{<<KW("IF"), Sym("("), KW("TRUE"), Sym(")")>> \o b1 \o <<KW("ELSE")>> \o b2 :
                              b1 \in Bloco(j), b2 \in Bloco(n - 1 - j)} : j \in 0..(n - 1)}
        Simples == {<<tX, Sym("="), tUm, Sym(";")>>,
                    <<KW("PRINT"), Sym("("), tX, Sym("*"), tUm, Sym(")"), Sym(";")>>}
    IN  While \cup If \cup IfElse \cup (IF n = 1 THEN Simples ELSE {})

Listas(n) ==
    IF n = 0 THEN {[toks |-> <<>>, ns |-> 0]}
    ELSE UNION {{[toks |-> c \o l.toks, ns |-> l.ns + 1] :
                     c \in Comandos(k), l \in Listas(n - k)} : k \in 1..n}

Cabecalho == <<KW("PROGRAM"), tX, Sym("{")>>

\* Program := 'program' IDENTIFIER '{' VarDecl* Statement* '}' with exactly n
\* declarations and statements in all
Estruturais(n) ==
    UNION {{[familia |-> "estrutura", toks |-> Cabecalho \o sv \o l.toks \o <<Sym("}")>>,
             gramatical |-> TRUE, nv |-> v, ns |-> l.ns, cadeia |-> <<>>] :
                sv \in SecoesVar(v), l \in Listas(n - v)} : v \in 0..n}

EstruturaisAte(m) == UNION {Estruturais(n) : n \in 0..m}

\* the programs whose one statement assigns an operator chain of at most m operands
ProgramasCadeia(m) ==
    {[familia |-> "cadeia",
      toks |-> Cabecalho \o <<tX, Sym("=")>> \o c \o <<Sym(";"), Sym("}")>>,
      gramatical |-> TRUE, nv |-> 0, ns |-> 1, cadeia |-> c] : c \in CadeiasAte(m)}

Gramaticais == EstruturaisAte(MaxItens) \cup ProgramasCadeia(MaxOperandos)

\* the programs the malformed inputs are made from
Bases == {c.toks : c \in EstruturaisAte(MaxItens - 1)}

Malformado(familia, toks) ==
    [familia |-> familia, toks |-> toks, gramatical |-> FALSE, nv |-> 0, ns |-> 0,
     cadeia |-> <<>>]

\* the tokens put after a whole program
Excedentes == {Sym(";"), Sym("}"), tX, KW("ELSE"), KW("PROGRAM"), tComentario}

\* cut short, one token left out, one token too many
Prefixos == UNION {{SubSeq(b, 1, k) : k \in 0..(Len(b) - 1)} : b \in Bases}
Omissoes == UNION {{SubSeq(b, 1, k - 1) \o SubSeq(b, k + 1, Len(b)) : k \in 1..Len(b)} :
                       b \in Bases}
Sobras == {b \o <<t>> : b \in Bases, t \in Excedentes}

GramaticaisToks == {c.toks : c \in Gramaticais}

Malformados ==
    {Malformado("prefixo", t) : t \in Prefixos \ GramaticaisToks} \cup
    {Malformado("omissao", t) : t \in Omissoes \ GramaticaisToks} \cup
    {Malformado("sobra", t) : t \in Sobras \ GramaticaisToks}

Casos == Gramaticais \cup Malformados

SemCaso == Malformado("fonte", <<>>)

(***************************************************************************)
(* The state machine                                                       *)
(***************************************************************************)
InitAnalisador ==
    /\ retornos = <<>>
    /\ entregue = <<>>
    /\ token_atual = TokenNone
    /\ ast = None
    /\ resultado = ""
    /\ fator_vazio = FALSE

\* AnalisadorLexico(codigo_fonte)
Init ==
    /\ codigo_fonte \in Fontes
    /\ tokens = <<>>
    /\ fase = "lexer"
    /\ caso = SemCaso
    /\ InitAnalisador

\* the caller builds the token list itself
InitParser ==
    /\ codigo_fonte = <<>>
    /\ \E c \in Casos : tokens = c.toks /\ caso = c
    /\ fase = "lista"
    /\ InitAnalisador

\* AnalisadorLexico.analisar_tokens(): the matches are appended to self.tokens
\* and self.tokens is returned
analisar_tokens ==
    /\ fase \in {"lexer", "lista"}
    /\ Len(retornos) < MaxChamadas
    /\ tokens' = tokens \o Emitidos(codigo_fonte)
    /\ retornos' = Append(retornos, tokens')
    /\ fase' = "lista"
    /\ UNCHANGED <<codigo_fonte, entregue, caso, token_atual, ast, resultado, fator_vazio>>

\* Analisador(tokens): self.tokens is the caller's list; pop(0) of an empty
\* list raises IndexError
Analisador_init ==
    /\ fase = "lista"
    /\ entregue' = tokens
    /\ IF tokens = <<>>
       THEN /\ resultado' = "IndexError"
            /\ fase' = "falhou"
            /\ UNCHANGED <<tokens, token_atual, ast>>
       ELSE /\ token_atual' = Head(tokens)
            /\ tokens' = Tail(tokens)
            /\ ast' = None
            /\ resultado' = "ok"
            /\ fase' = "construido"
    /\ UNCHANGED <<codigo_fonte, retornos, caso, fator_vazio>>

\* Analisador.analisar(): self.ast = self.programa()
analisar ==
    /\ fase = "construido"
    /\ LET r == programa([tokens |-> tokens, token_atual |-> token_atual,
                          erro |-> "ok", fator_vazio |-> FALSE])
       IN  /\ tokens' = r.st.tokens
           /\ token_atual' = r.st.token_atual
           /\ fator_vazio' = r.st.fator_vazio
           /\ resultado' = r.st.erro
           /\ ast' = IF r.st.erro = "ok" THEN r.no ELSE ast
    /\ fase' = "analisado"
    /\ UNCHANGED <<codigo_fonte, retornos, entregue, caso>>

Next == analisar_tokens \/ Analisador_init \/ analisar

Spec == Init /\ [][Next]_vars

NextParser == Analisador_init \/ analisar

SpecParser == InitParser /\ [][NextParser]_vars

(***************************************************************************)
(* Properties                                                              *)
(***************************************************************************)
\* the indices re.finditer passes over from index p on because no pattern
\* matches there
RECURSIVE SemCasamento(_, _)
SemCasamento(s, p) ==
    IF p > Len(s) THEN {}
    ELSE IF Alternativa(s, p) = 0 THEN {p} \cup SemCasamento(s, p + 1)
    ELSE SemCasamento(s, p + Casa(especificacoes_tokens[Alternativa(s, p)], s, p))

\* C1: a source text with a position at which no token pattern matches makes
\* analisar_tokens fail: the call never returns a token sequence.
C1_FalhaLexica == SemCasamento(codigo_fonte, 1) # {} => retornos = <<>>

\* the token kind enumeration of the interface between tokenizer and parser
TiposDeToken ==
    {"PROGRAM", "VAR", "INT", "FLOAT", "BOOL", "IF", "ELSE", "WHILE", "PRINT",
     "TRUE", "FALSE", "IDENTIFIER", "NUMBER", "SEMICOLON", "COLON", "LBRACE",
     "RBRACE", "LPAREN", "RPAREN", "ADD_OP", "MUL_OP", "REL_OP", "ASSIGN"}

\* C5: every token of a returned sequence has one of the 23 kinds of the
\* enumeration; neither WHITESPACE nor MULTILINE_COMMENT is ever emitted.
C5_SoTiposDoContrato ==
    \A i \in 1..Len(retornos) : \A j \in 1..Len(retornos[i]) :
        retornos[i][j][1] \in TiposDeToken

\* C7: every call of analisar_tokens on the same object returns the same
\* sequence as the first call.
C7_MesmoRetorno == \A i \in 1..Len(retornos) : retornos[i] = retornos[1]

\* C8: constructing an Analisador on a token list and running analisar
\* leaves the list handed in unchanged.
C8_ListaIntacta ==
    fase \in {"construido", "analisado", "falhou"} => tokens = entregue

\* C2: whenever fator was entered with a token that is none of IDENTIFIER,
\* NUMBER, LPAREN, TRUE, FALSE, the parse fails with SyntaxError.
C2_FatorFalha == (fase = "analisado" /\ fator_vazio) => resultado = "SyntaxError"

\* C3: when analisar returns successfully the whole sequence was consumed: no
\* token remains after the RBRACE that closes the program.
C3_ConsumoTotal ==
    (fase = "analisado" /\ resultado = "ok") => (tokens = <<>> /\ token_atual = TokenNone)

\* C4: the parser either returns an AST or fails with SyntaxError; no other
\* fault is ever the outcome.
C4_SoSyntaxError == resultado \in {"", "ok", "SyntaxError"}

\* every element of every filhos is a node, and an EXPR node has two children
RECURSIVE Integro(_)
Integro(n) ==
    /\ n # None
    /\ n.tipo = "EXPR" => Len(n.filhos) = 2
    /\ \A i \in 1..Len(n.filhos) : Integro(n.filhos[i])

\* C10: in the AST of a successful parse every element of every node's
\* children is itself a node, and every EXPR node has exactly two children.
C10_FilhosSaoNos == (fase = "analisado" /\ resultado = "ok") => Integro(ast)

\* C6: a token sequence derived from the grammar parses successfully to a
\* PROGRAMA node with exactly two children, the SECAO_VAR node with one child
\* per VarDecl and the DECLARACOES node with one child per top-level statement.
C6_ProgramaValido ==
    caso.gramatical =>
        /\ fase # "falhou"
        /\ fase = "analisado" =>
              /\ resultado = "ok"
              /\ ast.tipo = "PROGRAMA"
              /\ Len(ast.filhos) = 2
              /\ ast.filhos[1].tipo = "SECAO_VAR"
              /\ Len(ast.filhos[1].filhos) = caso.nv
              /\ ast.filhos[2].tipo = "DECLARACOES"
              /\ Len(ast.filhos[2].filhos) = caso.ns

\* a program with a declaration and two top-level statements was parsed
C6_Testemunha ==
    /\ fase = "analisado" /\ caso.gramatical /\ resultado = "ok"
    /\ caso.nv = 1 /\ caso.ns = 2
    /\ Len(ast.filhos[1].filhos) = 1 /\ Len(ast.filhos[2].filhos) = 2

\* the tier of an operator token: the relational operators bind loosest
Nivel(op) == IF op[1] = "REL_OP" THEN 1 ELSE IF op[1] = "ADD_OP" THEN 2 ELSE 3

\* the leaf of an operand token
Folha(t) ==
    No(IF t[1] = "IDENTIFIER" THEN "IDENTIFICADOR"
       ELSE IF t[1] = "NUMBER" THEN "NUMERO" ELSE "BOOLEANO", <<>>, t[2])

\* the tree of the grammar for a chain c = operand (operator operand)*: the
\* root is the LAST operator of the loosest tier in c, over the trees of what
\* stands left and right of it
RECURSIVE ArvoreDeReferencia(_)
ArvoreDeReferencia(c) ==
    IF Len(c) = 1 THEN Folha(c[1])
    ELSE LET ops == {i \in 1..Len(c) : i % 2 = 0}
             raiz == CHOOSE i \in ops :
                         \A j \in ops : /\ Nivel(c[i]) <= Nivel(c[j])
                                        /\ Nivel(c[i]) = Nivel(c[j]) => j <= i
         IN  No("EXPR", <<ArvoreDeReferencia(SubSeq(c, 1, raiz - 1)),
                          ArvoreDeReferencia(SubSeq(c, raiz + 1, Len(c)))>>, c[raiz][2])

\* the tree expr returned for the chain of the program x = chain ;
ArvoreDaCadeia == ast.filhos[2].filhos[1].filhos[1]

\* C9: for an operator chain without parentheses expr builds the tree of the
\* grammar: operators of one tier fold left, MUL_OP nests inside ADD_OP, which
\* nests inside REL_OP.
C9_ArvoreDaGramatica ==
    (caso.familia = "cadeia" /\ fase = "analisado") =>
        /\ resultado = "ok"
        /\ ArvoreDaCadeia = ArvoreDeReferencia(caso.cadeia)

\* a chain a ADD_OP b MUL_OP c was parsed to the ADD_OP node whose right child
\* is the MUL_OP node over b and c
C9_Testemunha ==
    /\ fase = "analisado" /\ caso.familia = "cadeia" /\ resultado = "ok"
    /\ Len(caso.cadeia) = 5
    /\ caso.cadeia[2][1] = "ADD_OP" /\ caso.cadeia[4][1] = "MUL_OP"
    /\ ArvoreDaCadeia.folha = caso.cadeia[2][2]
    /\ ArvoreDaCadeia.filhos[2] =
           No("EXPR", <<Folha(caso.cadeia[3]), Folha(caso.cadeia[5])>>, caso.cadeia[4][2])

====
